---- MODULE Spec2Model ----
(***************************************************************************)
(* LaTeXParser of src/src/parser/latex_parser.py as a state machine.       *)
(*                                                                         *)
(* A document is a sequence of lexemes.  Every lexeme is the literal piece *)
(* of LaTeX text it stands for, so the text the parser receives is the     *)
(* concatenation of the lexemes (Join).  Offsets are counted in lexemes,   *)
(* 0-based as in Python: offset p lies before lexeme p+1.  No regular      *)
(* expression of the parser can match across two lexemes of the vocabulary *)
(* below except where a definition says so (blank runs, the style/new-kind *)
(* pair), so a match is a property of one lexeme.  Lengths in characters   *)
(* are sums of the lexemes' lengths (CharLen).                             *)
(***************************************************************************)
EXTENDS Integers, Sequences, FiniteSets, TLC

VARIABLES input, auto_detect_envs, text, custom_environments, pc, pos, blocks,
          env_type_raw, title, label, content_start,
          depth, current_pos, content, content_end,
          proof_content_start, proof_result, returned,
          custom_envs, env_type_arg, normalized, consumed

vars == <<input, auto_detect_envs, text, custom_environments, pc, pos, blocks,
          env_type_raw, title, label, content_start,
          depth, current_pos, content, content_end,
          proof_content_start, proof_result, returned,
          custom_envs, env_type_arg, normalized, consumed>>

----------------------------------------------------------------------------
(* Optional values: Python's None, and a present value.                    *)

None == <<>>

Some(v) == <<v>>

----------------------------------------------------------------------------
(* Strings.  TLC treats a string as atomic, so the spelling of every name  *)
(* or identifier whose characters the parser inspects is tabulated here.   *)

Spelling ==
    ("definition"     :> <<"d", "e", "f", "i", "n", "i", "t", "i", "o", "n">>)
    @@ ("theorem"        :> <<"t", "h", "e", "o", "r", "e", "m">>)
    @@ ("lemma"          :> <<"l", "e", "m", "m", "a">>)
    @@ ("proposition"    :> <<"p", "r", "o", "p", "o", "s", "i", "t", "i", "o", "n">>)
    @@ ("corollary"      :> <<"c", "o", "r", "o", "l", "l", "a", "r", "y">>)
    @@ ("teorema"        :> <<"t", "e", "o", "r", "e", "m", "a">>)
    @@ ("definicion"     :> <<"d", "e", "f", "i", "n", "i", "c", "i", "o", "n">>)
    @@ ("definición"     :> <<"d", "e", "f", "i", "n", "i", "c", "i", "ó", "n">>)
    @@ ("lema"           :> <<"l", "e", "m", "a">>)
    @@ ("proposicion"    :> <<"p", "r", "o", "p", "o", "s", "i", "c", "i", "o", "n">>)
    @@ ("proposición"    :> <<"p", "r", "o", "p", "o", "s", "i", "c", "i", "ó", "n">>)
    @@ ("corolario"      :> <<"c", "o", "r", "o", "l", "a", "r", "i", "o">>)
    @@ ("thm"            :> <<"t", "h", "m">>)
    @@ ("defn"           :> <<"d", "e", "f", "n">>)
    @@ ("def"            :> <<"d", "e", "f">>)
    @@ ("lem"            :> <<"l", "e", "m">>)
    @@ ("prop"           :> <<"p", "r", "o", "p">>)
    @@ ("cor"            :> <<"c", "o", "r">>)
    @@ ("corol"          :> <<"c", "o", "r", "o", "l">>)
    @@ ("proof"          :> <<"p", "r", "o", "o", "f">>)
    @@ ("prueba"         :> <<"p", "r", "u", "e", "b", "a">>)
    @@ ("demostracion"   :> <<"d", "e", "m", "o", "s", "t", "r", "a", "c", "i", "o", "n">>)
    @@ ("demostración"   :> <<"d", "e", "m", "o", "s", "t", "r", "a", "c", "i", "ó", "n">>)
    @@ ("dem"            :> <<"d", "e", "m">>)
    @@ ("Theorem"        :> <<"T", "h", "e", "o", "r", "e", "m">>)
    @@ ("axiom"          :> <<"a", "x", "i", "o", "m">>)
    @@ ("Axiom"          :> <<"A", "x", "i", "o", "m">>)
    @@ ("mythm"          :> <<"m", "y", "t", "h", "m">>)
    @@ ("deflemma"       :> <<"d", "e", "f", "l", "e", "m", "m", "a">>)
    @@ ("THM"            :> <<"T", "H", "M">>)
    @@ ("Thm"            :> <<"T", "h", "m">>)
    @@ ("thm*"           :> <<"t", "h", "m", "*">>)
    @@ ("Lemma"          :> <<"L", "e", "m", "m", "a">>)
    @@ ("LEMMA"          :> <<"L", "E", "M", "M", "A">>)
    @@ ("lemma*"         :> <<"l", "e", "m", "m", "a", "*">>)
    @@ ("Theorem*"       :> <<"T", "h", "e", "o", "r", "e", "m", "*">>)
    @@ ("theorem*"       :> <<"t", "h", "e", "o", "r", "e", "m", "*">>)
    @@ ("DEFINITION"     :> <<"D", "E", "F", "I", "N", "I", "T", "I", "O", "N">>)
    @@ ("PROPOSICIÓN"    :> <<"P", "R", "O", "P", "O", "S", "I", "C", "I", "Ó", "N">>)
    @@ ("Corollary"      :> <<"C", "o", "r", "o", "l", "l", "a", "r", "y">>)
    @@ ("axiom*"         :> <<"a", "x", "i", "o", "m", "*">>)
    @@ ("Axiom*"         :> <<"A", "x", "i", "o", "m", "*">>)
    @@ ("mythm*"         :> <<"m", "y", "t", "h", "m", "*">>)
    @@ ("MyThm"          :> <<"M", "y", "T", "h", "m">>)
    @@ ("teoria"         :> <<"t", "e", "o", "r", "i", "a">>)
    @@ ("Teoria"         :> <<"T", "e", "o", "r", "i", "a">>)
    @@ ("thdef"          :> <<"t", "h", "d", "e", "f">>)
    @@ ("ThDef"          :> <<"T", "h", "D", "e", "f">>)
    @@ ("thdef*"         :> <<"t", "h", "d", "e", "f", "*">>)
    @@ ("defth"          :> <<"d", "e", "f", "t", "h">>)
    @@ ("DefTh"          :> <<"D", "e", "f", "T", "h">>)
    @@ ("mylem"          :> <<"m", "y", "l", "e", "m">>)
    @@ ("MyLem"          :> <<"M", "y", "L", "e", "m">>)
    @@ ("lemprop"        :> <<"l", "e", "m", "p", "r", "o", "p">>)
    @@ ("myprop"         :> <<"m", "y", "p", "r", "o", "p">>)
    @@ ("myprop*"        :> <<"m", "y", "p", "r", "o", "p", "*">>)
    @@ ("propcor"        :> <<"p", "r", "o", "p", "c", "o", "r">>)
    @@ ("mycor"          :> <<"m", "y", "c", "o", "r">>)
    @@ ("MYCOR"          :> <<"M", "Y", "C", "O", "R">>)
    @@ ("remark"         :> <<"r", "e", "m", "a", "r", "k">>)
    @@ ("Remark"         :> <<"R", "e", "m", "a", "r", "k">>)
    @@ ("remark*"        :> <<"r", "e", "m", "a", "r", "k", "*">>)
    @@ ("a"              :> <<"a">>)
    @@ ("b"              :> <<"b">>)
    @@ ("c"              :> <<"c">>)
    @@ ("l"              :> <<"l">>)
    @@ (" "              :> <<" ">>)
    @@ ("T"              :> <<"T">>)
    @@ (""               :> <<>>)

UpperToLower ==
    ("A" :> "a")
    @@ ("B" :> "b")
    @@ ("C" :> "c")
    @@ ("D" :> "d")
    @@ ("E" :> "e")
    @@ ("F" :> "f")
    @@ ("G" :> "g")
    @@ ("H" :> "h")
    @@ ("I" :> "i")
    @@ ("J" :> "j")
    @@ ("K" :> "k")
    @@ ("L" :> "l")
    @@ ("M" :> "m")
    @@ ("N" :> "n")
    @@ ("O" :> "o")
    @@ ("P" :> "p")
    @@ ("Q" :> "q")
    @@ ("R" :> "r")
    @@ ("S" :> "s")
    @@ ("T" :> "t")
    @@ ("U" :> "u")
    @@ ("V" :> "v")
    @@ ("W" :> "w")
    @@ ("X" :> "x")
    @@ ("Y" :> "y")
    @@ ("Z" :> "z")
    @@ ("Ó" :> "ó")

Join(chars) ==
    LET RECURSIVE J(_)
        J(i) == IF i > Len(chars) THEN "" ELSE chars[i] \o J(i + 1)
    IN J(1)

Blank == {" ", "\n"}

\* str.strip() on a sequence of characters or of lexemes
StripSeq(s) ==
    LET solid == {i \in 1..Len(s) : s[i] \notin Blank}
    IN IF solid = {} THEN <<>>
       ELSE SubSeq(s, CHOOSE i \in solid : \A j \in solid : i <= j,
                      CHOOSE i \in solid : \A j \in solid : j <= i)

\* str.strip() of a tabulated string
Strip(s) == Join(StripSeq(Spelling[s]))

LowerChar(c) == IF c \in DOMAIN UpperToLower THEN UpperToLower[c] ELSE c

\* the characters of str.lower()
LowerSeq(chars) == [i \in 1..Len(chars) |-> LowerChar(chars[i])]

\* the characters of str.rstrip('*')
RStripStar(chars) ==
    LET keep == {i \in 1..Len(chars) : chars[i] # "*"}
    IN IF keep = {} THEN <<>>
       ELSE SubSeq(chars, 1, CHOOSE i \in keep : \A j \in keep : j <= i)

\* Python's  frag in chars
Contains(chars, frag) ==
    \E i \in 0..(Len(chars) - Len(frag)) :
        \A k \in 1..Len(frag) : chars[i + k] = frag[k]

\* str.lower() of every tabulated string
Lowered == [name \in DOMAIN Spelling |-> Join(LowerSeq(Spelling[name]))]

Lower(name) == Lowered[name]

\* length in characters of a sequence of lexemes
CharLen(s) ==
    LET RECURSIVE L(_)
        L(i) == IF i > Len(s) THEN 0 ELSE Len(s[i]) + L(i + 1)
    IN L(1)

\* Python's slice text[from:to] on 0-based offsets
Slice(s, from, to) == SubSeq(s, from + 1, to)

\* pattern.search(text, from).start() for a pattern that matches single
\* lexemes: the first offset >= from among the lexemes numbered in hits,
\* or -1 when the search finds nothing
Search(hits, from) ==
    LET later == {i \in hits : i > from}
    IN IF later = {} THEN -1
       ELSE (CHOOSE i \in later : \A j \in later : i <= j) - 1

\* the lexemes of s that are not blank
Solid(s) == {i \in 1..Len(s) : s[i] \notin Blank}

----------------------------------------------------------------------------
(* The vocabulary.                                                         *)

\* \begin{name} / \end{name}, optionally starred, \begin optionally
\* followed by a bracketed title (group 2 of env_pattern)
Mark(c, n, s, t) == [cmd |-> c, name |-> n, star |-> s, title |-> t]

EnvMarker ==
       ("\\begin{theorem}"       :> Mark("begin", "theorem", FALSE, None))
    @@ ("\\end{theorem}"         :> Mark("end", "theorem", FALSE, None))
    @@ ("\\begin{theorem*}"      :> Mark("begin", "theorem", TRUE, None))
    @@ ("\\end{theorem*}"        :> Mark("end", "theorem", TRUE, None))
    @@ ("\\begin{Theorem}"       :> Mark("begin", "Theorem", FALSE, None))
    @@ ("\\end{Theorem}"         :> Mark("end", "Theorem", FALSE, None))
    @@ ("\\begin{theorem}[T]"    :> Mark("begin", "theorem", FALSE, Some("T")))
    @@ ("\\begin{theorem}[ ]"    :> Mark("begin", "theorem", FALSE, Some(" ")))
    @@ ("\\begin{theorem}[]"     :> Mark("begin", "theorem", FALSE, Some("")))
    @@ ("\\begin{thm}"           :> Mark("begin", "thm", FALSE, None))
    @@ ("\\end{thm}"             :> Mark("end", "thm", FALSE, None))
    @@ ("\\begin{lemma}"         :> Mark("begin", "lemma", FALSE, None))
    @@ ("\\end{lemma}"           :> Mark("end", "lemma", FALSE, None))
    @@ ("\\begin{definition}[T]" :> Mark("begin", "definition", FALSE, Some("T")))
    @@ ("\\end{definition}"      :> Mark("end", "definition", FALSE, None))
    @@ ("\\begin{proposition}[T]" :> Mark("begin", "proposition", FALSE, Some("T")))
    @@ ("\\end{proposition}"     :> Mark("end", "proposition", FALSE, None))
    @@ ("\\begin{axiom}"         :> Mark("begin", "axiom", FALSE, None))
    @@ ("\\end{axiom}"           :> Mark("end", "axiom", FALSE, None))
    @@ ("\\begin{mythm}"         :> Mark("begin", "mythm", FALSE, None))
    @@ ("\\end{mythm}"           :> Mark("end", "mythm", FALSE, None))
    @@ ("\\begin{proof}"         :> Mark("begin", "proof", FALSE, None))
    @@ ("\\end{proof}"           :> Mark("end", "proof", FALSE, None))
    @@ ("\\begin{dem}"           :> Mark("begin", "dem", FALSE, None))
    @@ ("\\end{dem}"             :> Mark("end", "dem", FALSE, None))

\* \ref{..} and \eqref{..}: the text between the braces.  The last lexeme
\* is a spacing command whose argument lacks its closing brace: \vspace{
\* swallows it up to the brace that closes the reference.
RefTarget ==
       ("\\ref{a}"          :> "a")
    @@ ("\\eqref{a}"        :> "a")
    @@ ("\\ref{b}"          :> "b")
    @@ ("\\ref{c}"          :> "c")
    @@ ("\\ref{ }"          :> " ")
    @@ ("\\vspace{\\ref{a}" :> "a")

\* \label{..}: the text between the braces
LabelTarget == ("\\label{l}" :> "l")

\* \newtheorem{name}{Title}: the introduced name
NewTheoremName ==
       ("\\newtheorem{axiom}{Axiom}"   :> "axiom")
    @@ ("\\newtheorem{lemma}{Lemma}"   :> "lemma")
    @@ ("\\newtheorem{mythm}{Theorem}" :> "mythm")

StyleDirective == {"\\theoremstyle{plain}"}

\* what clean_content's substitutions leave of one lexeme
Deleted == {"\\newpage", "\\vspace{\\ref{a}"}

Unwrapped == ("\\textbf{x}" :> "x")

----------------------------------------------------------------------------
(* Numbers of the parser.                                                  *)

\* extract_label: search_text = text[start_pos:start_pos + 200]
LabelWindow == 200

\* parse_text: len(content_clean.strip()) < 3
MinLength == 3

----------------------------------------------------------------------------
(* Class tables of LaTeXParser.                                            *)

MATH_ENVIRONMENTS == <<"definition", "theorem", "lemma", "proposition", "corollary">>

ENVIRONMENT_VARIANTS ==
       ("teorema"     :> "theorem")
    @@ ("definicion"  :> "definition")
    @@ ("definición"  :> "definition")
    @@ ("lema"        :> "lemma")
    @@ ("proposicion" :> "proposition")
    @@ ("proposición" :> "proposition")
    @@ ("corolario"   :> "corollary")
    @@ ("thm"         :> "theorem")
    @@ ("defn"        :> "definition")
    @@ ("def"         :> "definition")
    @@ ("lem"         :> "lemma")
    @@ ("prop"        :> "proposition")
    @@ ("cor"         :> "corollary")
    @@ ("corol"       :> "corollary")

proof_variants == {"proof", "prueba", "demostracion", "demostración", "dem"}

Range(f) == {f[i] : i \in DOMAIN f}

\* all_envs without the custom names
all_envs_Fixed(custom) == Range(MATH_ENVIRONMENTS) \cup DOMAIN ENVIRONMENT_VARIANTS

\* __init__: the names env_pattern is compiled from
all_envs(custom) == Range(MATH_ENVIRONMENTS) \cup DOMAIN ENVIRONMENT_VARIANTS \cup custom

\* re.IGNORECASE: name matches one of the alternatives
MatchesName(name, alternatives) ==
    \E e \in alternatives : Lower(name) = Lower(e)

IsMarker(tok) == tok \in DOMAIN EnvMarker

\* env_pattern matches at this lexeme
env_pattern(tok, custom) ==
    /\ IsMarker(tok)
    /\ EnvMarker[tok].cmd = "begin"
    /\ MatchesName(EnvMarker[tok].name, all_envs(custom))

proof_start_pattern(tok) ==
    /\ IsMarker(tok)
    /\ EnvMarker[tok].cmd = "begin"
    /\ MatchesName(EnvMarker[tok].name, proof_variants)

proof_end_pattern(tok) ==
    /\ IsMarker(tok)
    /\ EnvMarker[tok].cmd = "end"
    /\ MatchesName(EnvMarker[tok].name, proof_variants)

----------------------------------------------------------------------------
(* The pure helpers of LaTeXParser.                                        *)

\* no character taken for the escape character
EndsWithBackslash_Never(tok) == FALSE

\* line[i-1] == '\\': the lexeme before is the escape character
EndsWithBackslash(tok) == tok = "\\"

\* remove_comments leaving the text as it is
remove_comments_Kept(s) == s

\* remove_comments: every line is cut at its first % that starts the line
\* or does not follow a backslash; the newlines stay
remove_comments(s) ==
    LET RECURSIVE RC(_, _, _)
        RC(i, cut, escaped) ==
            IF i > Len(s) THEN <<>>
            ELSE IF s[i] = "\n" THEN <<s[i]>> \o RC(i + 1, FALSE, FALSE)
            ELSE IF cut THEN RC(i + 1, TRUE, FALSE)
            ELSE IF s[i] = "%" /\ ~escaped THEN RC(i + 1, TRUE, FALSE)
            ELSE <<s[i]>> \o RC(i + 1, FALSE, EndsWithBackslash(s[i]))
    IN RC(1, FALSE, FALSE)

\* the re.sub calls of clean_content that delete or unwrap a command
Substitute(s) ==
    LET RECURSIVE S(_)
        S(i) == IF i > Len(s) THEN <<>>
                ELSE IF s[i] \in Deleted THEN S(i + 1)
                ELSE IF s[i] \in DOMAIN Unwrapped THEN <<Unwrapped[s[i]]>> \o S(i + 1)
                ELSE <<s[i]>> \o S(i + 1)
    IN S(1)

\* re.sub(r'\n\s*\n\s*\n+', '\n\n'): in a run of blanks holding three or
\* more newlines, the stretch from its first to its last newline becomes two
CollapseBlankLines(s) ==
    LET RunEnd(i) ==
            CHOOSE j \in i..Len(s) :
                /\ \A k \in i..j : s[k] \in Blank
                /\ j = Len(s) \/ s[j + 1] \notin Blank
        RECURSIVE C(_)
        C(i) ==
            IF i > Len(s) THEN <<>>
            ELSE IF s[i] \notin Blank THEN <<s[i]>> \o C(i + 1)
            ELSE LET j == RunEnd(i)
                     nl == {k \in i..j : s[k] = "\n"}
                 IN IF Cardinality(nl) < 3 THEN SubSeq(s, i, j) \o C(j + 1)
                    ELSE LET first == CHOOSE k \in nl : \A m \in nl : k <= m
                             last == CHOOSE k \in nl : \A m \in nl : m <= k
                         IN SubSeq(s, i, first - 1) \o <<"\n", "\n">>
                            \o SubSeq(s, last + 1, j) \o C(j + 1)
    IN C(1)

\* re.sub(r'[ \t]+', ' ')
CollapseSpaces(s) ==
    LET RECURSIVE C(_)
        C(i) == IF i > Len(s) THEN <<>>
                ELSE IF s[i] = " " /\ i > 1 /\ s[i - 1] = " " THEN C(i + 1)
                ELSE <<s[i]>> \o C(i + 1)
    IN C(1)

clean_content(c) == StripSeq(CollapseSpaces(CollapseBlankLines(Substitute(c))))

\* extract_references: the trimmed targets, empty ones skipped, each once
extract_references(s) ==
    LET RECURSIVE R(_, _)
        R(i, references) ==
            IF i > Len(s) THEN references
            ELSE IF s[i] \notin DOMAIN RefTarget THEN R(i + 1, references)
            ELSE LET ref_label == Strip(RefTarget[s[i]])
                 IN IF ref_label # "" /\ ref_label \notin Range(references)
                    THEN R(i + 1, Append(references, ref_label))
                    ELSE R(i + 1, references)
    IN R(1, <<>>)

\* extract_label: blanks, then \label{..}, all inside the lookahead window
extract_label(s, start_pos) ==
    LET at == Search(Solid(s), start_pos)
    IN IF /\ at >= 0
          /\ s[at + 1] \in DOMAIN LabelTarget
          /\ CharLen(Slice(s, start_pos, at + 1)) <= LabelWindow
       THEN [label |-> Some(Strip(LabelTarget[s[at + 1]])), pos |-> at + 1]
       ELSE [label |-> None, pos |-> start_pos]

\* normalize_env_type trying the definition-like fragment before the
\* theorem-like one
normalize_env_type_DefinitionFirst(env_type) ==
    LET chars == RStripStar(LowerSeq(Spelling[env_type]))
        env_lower == Join(chars)
    IN IF env_lower \in DOMAIN ENVIRONMENT_VARIANTS THEN ENVIRONMENT_VARIANTS[env_lower]
       ELSE IF env_lower \in Range(MATH_ENVIRONMENTS) THEN env_lower
       ELSE IF Contains(chars, <<"d", "e", "f">>) THEN "definition"
       ELSE IF Contains(chars, <<"t", "h">>) \/ Contains(chars, <<"t", "e", "o">>)
            THEN "theorem"
       ELSE IF Contains(chars, <<"l", "e", "m">>) THEN "lemma"
       ELSE IF Contains(chars, <<"p", "r", "o", "p">>) THEN "proposition"
       ELSE IF Contains(chars, <<"c", "o", "r">>) THEN "corollary"
       ELSE env_lower

normalize_env_type(env_type) ==
    LET chars == RStripStar(LowerSeq(Spelling[env_type]))
        env_lower == Join(chars)
    IN IF env_lower \in DOMAIN ENVIRONMENT_VARIANTS THEN ENVIRONMENT_VARIANTS[env_lower]
       ELSE IF env_lower \in Range(MATH_ENVIRONMENTS) THEN env_lower
       ELSE IF Contains(chars, <<"t", "h">>) \/ Contains(chars, <<"t", "e", "o">>)
            THEN "theorem"
       ELSE IF Contains(chars, <<"d", "e", "f">>) THEN "definition"
       ELSE IF Contains(chars, <<"l", "e", "m">>) THEN "lemma"
       ELSE IF Contains(chars, <<"p", "r", "o", "p">>) THEN "proposition"
       ELSE IF Contains(chars, <<"c", "o", "r">>) THEN "corollary"
       ELSE env_lower

\* detect_custom_environments: first every \newtheorem{name}{Title}, then
\* every \theoremstyle{..} \newtheorem{name} pair
detect_custom_environments(s) ==
    LET RECURSIVE Direct(_, _)
        Direct(i, envs) ==
            IF i > Len(s) THEN envs
            ELSE IF s[i] \notin DOMAIN NewTheoremName THEN Direct(i + 1, envs)
            ELSE LET env_name == Strip(NewTheoremName[s[i]])
                 IN IF env_name # "" /\ env_name \notin Range(MATH_ENVIRONMENTS)
                    THEN Direct(i + 1, Append(envs, env_name))
                    ELSE Direct(i + 1, envs)
        RECURSIVE Styled(_, _)
        Styled(i, envs) ==
            IF i > Len(s) THEN envs
            ELSE IF s[i] \notin StyleDirective THEN Styled(i + 1, envs)
            ELSE LET at == Search(Solid(s), i)
                 IN IF at < 0 \/ s[at + 1] \notin DOMAIN NewTheoremName
                    THEN Styled(i + 1, envs)
                    ELSE LET env_name == Strip(NewTheoremName[s[at + 1]])
                         IN IF /\ env_name # ""
                               /\ env_name \notin Range(MATH_ENVIRONMENTS)
                               /\ env_name \notin Range(envs)
                            THEN Styled(at + 2, Append(envs, env_name))
                            ELSE Styled(at + 2, envs)
    IN Styled(1, Direct(1, <<>>))

----------------------------------------------------------------------------
(* One step of the scans, and the tests of parse_text.                     *)

\* end_pattern of extract_environment: \begin or \end of the raw name,
\* starred or not, letter case ignored
end_pattern(tok, env_type) ==
    /\ IsMarker(tok)
    /\ LowerSeq(Spelling[EnvMarker[tok].name]) = LowerSeq(RStripStar(Spelling[env_type]))

\* DepthAfter without nesting: an opening marker leaves the depth alone
DepthAfter_Flat(d, tok) == IF EnvMarker[tok].cmd = "begin" THEN d ELSE d - 1

\* the depth after a marker found by extract_environment or extract_proof
DepthAfter(d, tok) == IF EnvMarker[tok].cmd = "begin" THEN d + 1 ELSE d - 1

Returned(c, e) == [done |-> TRUE, content |-> c, end |-> e, depth |-> 0, current_pos |-> e]

\* Continue resuming at the start of the match instead of its end
Continue_AtMatchStart(d, p) ==
    [done |-> FALSE, content |-> <<>>, end |-> 0, depth |-> d, current_pos |-> p - 1]

\* "current_pos = match.end()": the loop goes round again
Continue(d, p) == [done |-> FALSE, content |-> <<>>, end |-> 0, depth |-> d, current_pos |-> p]

\* Truncated dropping the unclosed block instead of keeping its text
Truncated_Dropped(s, start_pos) == Returned(<<>>, Len(s))

\* no closing marker: "return text[start_pos:], len(text)"
Truncated(s, start_pos) == Returned(Slice(s, start_pos, Len(s)), Len(s))

\* one pass through the while loop of extract_environment
extract_environment(s, start_pos, env_type, d, cur) ==
    IF ~(d > 0 /\ cur < Len(s)) THEN Truncated(s, start_pos)
    ELSE LET m == Search({i \in 1..Len(s) : end_pattern(s[i], env_type)}, cur)
         IN IF m < 0 THEN Truncated(s, start_pos)
            ELSE IF DepthAfter(d, s[m + 1]) = 0
                 THEN Returned(Slice(s, start_pos, m), m + 1)
                 ELSE Continue(DepthAfter(d, s[m + 1]), m + 1)

\* proof_start without the test of what lies between
proof_start_Anywhere(s, start_pos) ==
    Search({i \in 1..Len(s) : proof_start_pattern(s[i])}, start_pos)

\* extract_proof up to its loop: the offset of the proof opening marker that
\* follows start_pos after blanks only, or -1
proof_start(s, start_pos) ==
    LET m == Search({i \in 1..Len(s) : proof_start_pattern(s[i])}, start_pos)
    IN IF m < 0 THEN -1
       ELSE IF StripSeq(Slice(s, start_pos, m)) # <<>> THEN -1
       ELSE m

\* next_match taking the next closing marker, opening markers passed over
next_match_EndFirst(s, cur) ==
    Search({i \in 1..Len(s) : proof_end_pattern(s[i])}, cur)

\* the marker the loop of extract_proof handles next, or -1
next_match(s, cur) ==
    LET begin_match == Search({i \in 1..Len(s) : proof_start_pattern(s[i])}, cur)
        end_match == Search({i \in 1..Len(s) : proof_end_pattern(s[i])}, cur)
    IN IF begin_match >= 0 /\ end_match >= 0
       THEN (IF begin_match < end_match THEN begin_match ELSE end_match)
       ELSE IF begin_match >= 0 THEN begin_match
       ELSE end_match

\* one pass through the while loop of extract_proof
extract_proof(s, proof_start_pos, d, cur) ==
    IF ~(d > 0 /\ cur < Len(s)) THEN Truncated(s, proof_start_pos)
    ELSE LET m == next_match(s, cur)
         IN IF m < 0 THEN Truncated(s, proof_start_pos)
            ELSE IF DepthAfter(d, s[m + 1]) = 0
                 THEN Returned(Slice(s, proof_start_pos, m), m + 1)
                 ELSE Continue(DepthAfter(d, s[m + 1]), m + 1)

\* ContentDropped with the comparison off by one
ContentDropped_OffByOne(content_clean) ==
    content_clean = <<>> \/ CharLen(StripSeq(content_clean)) <= MinLength

\* parse_text: "if not content_clean or len(content_clean.strip()) < 3"
ContentDropped(content_clean) ==
    content_clean = <<>> \/ CharLen(StripSeq(content_clean)) < MinLength

\* parse_text: "if proof_clean and len(proof_clean.strip()) < 3"
ProofDropped(proof_clean) ==
    proof_clean # <<>> /\ CharLen(StripSeq(proof_clean)) < MinLength

\* parse_text: title = match.group(2).strip() if match.group(2) else None
TitleOf(tok) ==
    LET group2 == EnvMarker[tok].title
    IN IF group2 # None /\ group2[1] # "" THEN Some(Strip(group2[1])) ELSE None

\* parse_text: all_refs, content references first, then the new ones
MergeRefs(content_refs, proof_refs) ==
    LET RECURSIVE M(_, _)
        M(i, all_refs) ==
            IF i > Len(proof_refs) THEN all_refs
            ELSE IF proof_refs[i] \notin Range(all_refs)
                 THEN M(i + 1, Append(all_refs, proof_refs[i]))
                 ELSE M(i + 1, all_refs)
    IN M(1, content_refs)

\* parse_text from "proof_clean = None" to the dict it appends
MakeBlock(raw, ttl, lbl, cont, result) ==
    LET cleaned == clean_content(result[1].content)
        kept == result # None /\ ~ProofDropped(cleaned)
        proof_refs == IF kept THEN extract_references(result[1].content) ELSE <<>>
        all_refs == MergeRefs(extract_references(cont), proof_refs)
    IN [type |-> normalize_env_type(raw),
        label |-> lbl,
        title |-> ttl,
        content_latex |-> clean_content(cont),
        proof_latex |-> IF kept THEN Some(cleaned) ELSE None,
        references |-> IF all_refs # <<>> THEN Some(all_refs) ELSE None]

\* NextPos never going past the proof
NextPos_ContentEnd(cont_end, result) == cont_end

\* parse_text: next_pos
NextPos(cont_end, result) == IF result # None THEN result[1].end ELSE cont_end

----------------------------------------------------------------------------
(* Bounds of the model.                                                    *)

\* longest document, in lexemes
MaxLen == 5

\* calls of parse_text on one parser instance
MaxCalls == 3

\* test_parser's document: a titled definition, a titled theorem with its
\* proof, a lemma, a titled proposition with its proof
Scenario ==
    <<"\n", "\\begin{definition}[T]", "\n", "abc", "\n", "\\end{definition}", "\n", "\n",
      "\\newpage", "\n", "\n",
      "\\begin{theorem}[T]", "\n", "abc", "\n", "\\end{theorem}", "\n", "\n",
      "\\begin{proof}", "\n", "abc", "\n", "\\end{proof}", "\n", "\n",
      "\\begin{lemma}", "\n", "abc", "\n", "\\end{lemma}", "\n", "\n",
      "%", " ", "abc", "\n", "\n",
      "\\begin{proposition}[T]", "\n", "abc", "\n", "\\end{proposition}", "\n", "\n",
      "\\begin{proof}", "\n", "abc", "\n", "\\end{proof}", "\n">>

\* the documents one parser instance is given: a custom kind used without
\* and with its declaration, a short statement before a lemma with a proof,
\* and the four statements of test_parser
SessionDocs ==
    { <<"\\begin{axiom}", "abc", "\\end{axiom}">>,
      <<"\\newtheorem{axiom}{Axiom}", "\\begin{axiom}", "abc", "\\end{axiom}">>,
      <<"\\begin{theorem}", "x", "\\end{theorem}", "\\begin{lemma}", "abc",
        "\\end{lemma}", " ", "\\begin{proof}", "abc", "\\end{proof}">>,
      Scenario }

----------------------------------------------------------------------------
(* parse_text as a state machine.  pc is the place in parse_text:          *)
(*   "call"    parse_text is entered with the document in input            *)
(*   "walk"    head of the walker loop (while pos < len(text))             *)
(*   "environment"  inside the loop of extract_environment                 *)
(*   "statement"    extract_environment has returned                       *)
(*   "proof"   inside the loop of extract_proof                            *)
(*   "block"   extract_proof has returned                                  *)
(*   "done"    parse_text has returned blocks                              *)

\* parse_text down to "pos = 0": comments, detection, rebuilt matcher
Prepare ==
    /\ pc = "call"
    /\ text' = remove_comments(input)
    /\ custom_envs' = IF auto_detect_envs THEN detect_custom_environments(text')
                                          ELSE custom_envs
    /\ custom_environments' =
          IF auto_detect_envs /\ custom_envs' # <<>>
          THEN Range(custom_envs')
          ELSE custom_environments
    /\ blocks' = <<>>
    /\ pos' = 0
    /\ consumed' = <<>>
    /\ pc' = "walk"
    /\ UNCHANGED <<input, auto_detect_envs, env_type_raw, title, label, content_start,
                   depth, current_pos, content, content_end,
                   proof_content_start, proof_result, returned>>
    /\ UNCHANGED <<env_type_arg, normalized>>

\* StatementAt searching from the start of the text, not from pos
StatementAt_FromStart ==
    Search({i \in 1..Len(text) : env_pattern(text[i], custom_environments)}, 0)

\* "self.env_pattern.search(text, pos)": the offset of the next opening
\* marker of a statement, or -1
StatementAt ==
    Search({i \in 1..Len(text) : env_pattern(text[i], custom_environments)}, pos)

\* what one pass of the walker loop has used of the text (a record kept for
\* the statements about spans, not a value of the parser): the offsets of
\* the opening marker and of the content end, the offsets where the proof
\* that was found opens and ends, where the walker goes on, and whether a
\* block was emitted
Span(open, cont_end, result, emitted) ==
    [open |-> open,
     content_end |-> cont_end,
     proof_open |-> IF result # None THEN proof_content_start - 1 ELSE -1,
     proof_end |-> IF result # None THEN result[1].end ELSE -1,
     next_pos |-> IF emitted THEN NextPos(cont_end, result) ELSE cont_end,
     emitted |-> emitted]

\* the walker finds the next opening marker and enters extract_environment
FindStatement ==
    /\ pc = "walk"
    /\ pos < Len(text)
    /\ StatementAt >= 0
    /\ LET tok == text[StatementAt + 1]
           found == extract_label(text, StatementAt + 1)
       IN /\ env_type_raw' = EnvMarker[tok].name
          /\ title' = TitleOf(tok)
          /\ label' = found.label
          /\ content_start' = found.pos
          /\ depth' = 1
          /\ current_pos' = found.pos
    /\ pc' = "environment"
    /\ UNCHANGED <<input, auto_detect_envs, text, custom_environments, pos, blocks,
                   content, content_end, proof_content_start, proof_result, returned>>
    /\ UNCHANGED <<custom_envs, env_type_arg, normalized, consumed>>

\* the walker loop ends: parse_text returns blocks
Return ==
    /\ pc = "walk"
    /\ ~(pos < Len(text) /\ StatementAt >= 0)
    /\ returned' = Append(returned, [input |-> input, blocks |-> blocks])
    /\ pc' = "done"
    /\ UNCHANGED <<input, auto_detect_envs, text, custom_environments, pos, blocks,
                   env_type_raw, title, label, content_start, depth, current_pos,
                   content, content_end, proof_content_start, proof_result>>
    /\ UNCHANGED <<custom_envs, env_type_arg, normalized, consumed>>

\* one pass through the loop of extract_environment
ScanEnvironment ==
    /\ pc = "environment"
    /\ LET r == extract_environment(text, content_start, env_type_raw, depth, current_pos)
       IN /\ depth' = r.depth
          /\ current_pos' = r.current_pos
          /\ content' = IF r.done THEN r.content ELSE content
          /\ content_end' = IF r.done THEN r.end ELSE content_end
          /\ pc' = IF r.done THEN "statement" ELSE "environment"
    /\ UNCHANGED <<input, auto_detect_envs, text, custom_environments, pos, blocks,
                   env_type_raw, title, label, content_start,
                   proof_content_start, proof_result, returned>>
    /\ UNCHANGED <<custom_envs, env_type_arg, normalized, consumed>>

\* the content is too short: the statement is skipped
DiscardStatement ==
    /\ pc = "statement"
    /\ ContentDropped(clean_content(content))
    /\ pos' = content_end
    /\ consumed' = Append(consumed, Span(StatementAt, content_end, None, FALSE))
    /\ pc' = "walk"
    /\ UNCHANGED <<input, auto_detect_envs, text, custom_environments, blocks,
                   env_type_raw, title, label, content_start, depth, current_pos,
                   content, content_end, proof_content_start, proof_result, returned>>
    /\ UNCHANGED <<custom_envs, env_type_arg, normalized>>

\* extract_proof is entered: no adjacent proof, or its loop starts
SeekProof ==
    /\ pc = "statement"
    /\ ~ContentDropped(clean_content(content))
    /\ LET m == proof_start(text, content_end)
       IN IF m < 0
          THEN /\ proof_result' = None
               /\ pc' = "block"
               /\ UNCHANGED <<proof_content_start, depth, current_pos>>
          ELSE /\ proof_content_start' = m + 1
               /\ depth' = 1
               /\ current_pos' = m + 1
               /\ pc' = "proof"
               /\ UNCHANGED proof_result
    /\ UNCHANGED <<input, auto_detect_envs, text, custom_environments, pos, blocks,
                   env_type_raw, title, label, content_start,
                   content, content_end, returned>>
    /\ UNCHANGED <<custom_envs, env_type_arg, normalized, consumed>>

\* one pass through the loop of extract_proof
ScanProof ==
    /\ pc = "proof"
    /\ LET r == extract_proof(text, proof_content_start, depth, current_pos)
       IN /\ depth' = r.depth
          /\ current_pos' = r.current_pos
          /\ proof_result' = IF r.done THEN Some([content |-> r.content, end |-> r.end])
                             ELSE proof_result
          /\ pc' = IF r.done THEN "block" ELSE "proof"
    /\ UNCHANGED <<input, auto_detect_envs, text, custom_environments, pos, blocks,
                   env_type_raw, title, label, content_start,
                   content, content_end, proof_content_start, returned>>
    /\ UNCHANGED <<custom_envs, env_type_arg, normalized, consumed>>

\* the block is appended and the walker moves on
EmitBlock ==
    /\ pc = "block"
    /\ blocks' = Append(blocks, MakeBlock(env_type_raw, title, label, content, proof_result))
    /\ pos' = NextPos(content_end, proof_result)
    /\ consumed' = Append(consumed, Span(StatementAt, content_end, proof_result, TRUE))
    /\ pc' = "walk"
    /\ UNCHANGED <<input, auto_detect_envs, text, custom_environments,
                   env_type_raw, title, label, content_start, depth, current_pos,
                   content, content_end, proof_content_start, proof_result, returned>>
    /\ UNCHANGED <<custom_envs, env_type_arg, normalized>>

\* the same parser instance is given another document
ParseAgain ==
    /\ pc = "done"
    /\ Len(returned) < MaxCalls
    /\ \E d \in SessionDocs : input' = d
    /\ pc' = "call"
    /\ UNCHANGED <<auto_detect_envs, text, custom_environments, pos, blocks,
                   env_type_raw, title, label, content_start, depth, current_pos,
                   content, content_end, proof_content_start, proof_result, returned>>
    /\ UNCHANGED <<custom_envs, env_type_arg, normalized, consumed>>

Next ==
    \/ Prepare
    \/ FindStatement
    \/ Return
    \/ ScanEnvironment
    \/ DiscardStatement
    \/ SeekProof
    \/ ScanProof
    \/ EmitBlock

NextSession == Next \/ ParseAgain

\* the documents over a vocabulary, up to n lexemes
Texts(vocabulary, n) == UNION {[1..k -> vocabulary] : k \in 0..n}

\* LaTeXParser() and the first call of parse_text
Start(documents) ==
    /\ input \in documents
    /\ auto_detect_envs = TRUE
    /\ text = <<>>
    /\ custom_environments = {}
    /\ pc = "call"
    /\ pos = 0
    /\ blocks = <<>>
    /\ env_type_raw = "theorem"
    /\ title = None
    /\ label = None
    /\ content_start = 0
    /\ depth = 0
    /\ current_pos = 0
    /\ content = <<>>
    /\ content_end = 0
    /\ proof_content_start = 0
    /\ proof_result = None
    /\ returned = <<>>
    /\ custom_envs = <<>>
    /\ consumed = <<>>
    /\ env_type_arg = "theorem"
    /\ normalized = <<>>

----------------------------------------------------------------------------
(* Specifications: one state machine, started on different documents.      *)

\* statements, proofs, plain text of 3 and of 1 character, a blank
Vocabulary == {"\\begin{theorem}", "\\end{theorem}", "\\begin{proof}", "\\end{proof}",
               "abc", "x", " "}

Init == Start(Texts(Vocabulary, MaxLen))

Spec == Init /\ [][Next]_vars

\* one statement kind under its plain, starred, capitalised and alias names
NestingVocabulary == {"\\begin{theorem}", "\\end{theorem}", "\\end{theorem*}",
                      "\\begin{Theorem}", "\\end{thm}", "\\begin{proof}", "abc"}

InitNesting == Start(Texts(NestingVocabulary, MaxLen))

SpecNesting == InitNesting /\ [][Next]_vars

----------------------------------------------------------------------------
(* Nesting, stated by counting markers rather than by scanning.            *)

Opens(tok, n) ==
    IsMarker(tok) /\ EnvMarker[tok].cmd = "begin" /\ Lower(EnvMarker[tok].name) = Lower(n)

Closes(tok, n) ==
    IsMarker(tok) /\ EnvMarker[tok].cmd = "end" /\ Lower(EnvMarker[tok].name) = Lower(n)

\* the depth of name n after lexeme upto, for a block whose content starts
\* at offset start
NestingDepth(s, n, start, upto) ==
    1 + Cardinality({i \in (start + 1)..upto : Opens(s[i], n)})
      - Cardinality({i \in (start + 1)..upto : Closes(s[i], n)})

\* the closing markers of n that bring the depth to 0
ClosingMarkers(s, n, start) ==
    {c \in (start + 1)..Len(s) : Closes(s[c], n) /\ NestingDepth(s, n, start, c) = 0}

First(S) == CHOOSE c \in S : \A d \in S : c <= d

\* C1: when extract_environment returns and some closing marker of the raw
\* name brings the nesting depth (1 at the start, +1 per opening marker of
\* that name, -1 per closing marker of it, starred or not, other names not
\* counted) to 0, the content is the slice from the start offset to the
\* first such marker and the returned offset is just past that marker.
C1_BalancedClose ==
    pc = "statement" =>
        LET closing == ClosingMarkers(text, env_type_raw, content_start)
        IN closing # {} =>
              /\ content = Slice(text, content_start, First(closing) - 1)
              /\ content_end = First(closing)

\* a block closed by its own marker with a whole instance of the same name
\* and an alias marker inside its content
C1_Witness ==
    /\ pc = "statement"
    /\ ClosingMarkers(text, env_type_raw, content_start) # {}
    /\ \E i, j \in 1..Len(content) :
          i < j /\ Opens(content[i], env_type_raw) /\ Closes(content[j], env_type_raw)
    /\ \E i \in 1..Len(content) :
          IsMarker(content[i]) /\ EnvMarker[content[i]].name = "thm"

----------------------------------------------------------------------------
(* Proof adjacency.                                                        *)

\* a proof opening marker follows offset p with nothing but blanks between
ProofAdjacent(s, p) ==
    \E j \in (p + 1)..Len(s) :
        /\ proof_start_pattern(s[j])
        /\ \A k \in (p + 1)..(j - 1) : s[k] \in Blank

\* C2: extract_proof finds a proof for a statement if and only if a proof
\* opening marker follows the statement's end after blanks only; when
\* anything else (text, another statement's opening marker) comes before
\* the next proof opening marker, the block emitted for the statement has
\* no proof and the walker resumes at the statement's end, so the later
\* proof is not consumed for this statement.
C2_ProofAdjacency ==
    /\ [](pc = "block" => (proof_result # None <=> ProofAdjacent(text, content_end)))
    /\ [][pc = "block" /\ ~ProofAdjacent(text, content_end) =>
             /\ blocks' = Append(blocks, blocks'[Len(blocks')])
             /\ blocks'[Len(blocks')].proof_latex = None
             /\ pos' = content_end]_vars

\* a statement about to be emitted without proof although a proof opening
\* marker comes later in the document
C2_Witness ==
    /\ pc = "block"
    /\ proof_result = None
    /\ \E j \in (content_end + 1)..Len(text) : proof_start_pattern(text[j])

----------------------------------------------------------------------------
(* Minimum content.                                                        *)

\* lexemes that hold one blank character between their braces or brackets
InnerBlank == {"\\begin{theorem}[ ]", "\\ref{ }"}

\* the characters of a sequence of lexemes that are not white space
NonBlankChars(s) ==
    LET RECURSIVE N(_)
        N(i) == IF i > Len(s) THEN 0
                ELSE IF s[i] \in Blank THEN N(i + 1)
                ELSE IF s[i] \in InnerBlank THEN Len(s[i]) - 1 + N(i + 1)
                ELSE Len(s[i]) + N(i + 1)
    IN N(1)

\* C3 as claimed: every emitted block has normalized content with at least
\* 3 characters that are not white space.
C3_AsClaimed ==
    \A i \in 1..Len(blocks) : NonBlankChars(blocks[i].content_latex) >= MinLength

\* C3, amended: every emitted block has normalized content of at least 3
\* characters, blanks inside it counted; a statement whose normalized
\* content is shorter is not emitted and the walker moves on, and a
\* statement with 3 characters or more goes on to be emitted with that
\* normalized content.
C3_TrimmedLength ==
    /\ [](\A i \in 1..Len(blocks) : CharLen(blocks[i].content_latex) >= MinLength)
    /\ [](pc \in {"proof", "block"} => CharLen(clean_content(content)) >= MinLength)
    /\ [][pc = "statement" =>
             IF CharLen(clean_content(content)) < MinLength
             THEN blocks' = blocks /\ pc' = "walk"
             ELSE pc' \in {"proof", "block"} /\ content' = content]_vars
    /\ [][pc = "block" =>
             /\ Len(blocks') = Len(blocks) + 1
             /\ blocks'[Len(blocks')].content_latex = clean_content(content)]_vars

\* an emitted block whose normalized content is exactly 3 characters long,
\* one of them a blank
C3_Witness ==
    \E i \in 1..Len(blocks) :
        /\ CharLen(blocks[i].content_latex) = MinLength
        /\ " " \in Range(blocks[i].content_latex)

\* C4: in every emitted block the proof is absent or a normalized proof of
\* at least 3 characters; a proof that normalizes to fewer, the empty proof
\* included, is absent.
C4_ProofMeetsMinimum ==
    \A i \in 1..Len(blocks) :
        \/ blocks[i].proof_latex = None
        \/ CharLen(blocks[i].proof_latex[1]) >= MinLength

----------------------------------------------------------------------------
(* References.                                                             *)

\* statements and proofs whose bodies are references
RefsVocabulary == {"\\begin{theorem}", "\\end{theorem}", "\\begin{proof}",
                   "\\ref{a}", "\\ref{b}", "\\ref{ }", "\\vspace{\\ref{a}"}

InitRefs == Start(Texts(RefsVocabulary, MaxLen))

SpecRefs == InitRefs /\ [][Next]_vars

\* the identifiers referenced in s, trimmed, in order of appearance
Identifiers(s) ==
    LET at == {i \in 1..Len(s) : s[i] \in DOMAIN RefTarget}
        RECURSIVE I(_)
        I(i) == IF i > Len(s) THEN <<>>
                ELSE IF i \in at THEN <<Strip(RefTarget[s[i]])>> \o I(i + 1)
                ELSE I(i + 1)
    IN I(1)

\* ids without the empty identifier, each kept at its first place only
FirstSeen(ids) ==
    LET keep == {i \in 1..Len(ids) : ids[i] # "" /\ \A j \in 1..(i - 1) : ids[j] # ids[i]}
        RECURSIVE F(_)
        F(i) == IF i > Len(ids) THEN <<>>
                ELSE IF i \in keep THEN <<ids[i]>> \o F(i + 1)
                ELSE F(i + 1)
    IN F(1)

\* the proof found for the statement in hand meets the minimum
ProofMeetsMinimum ==
    proof_result # None /\ CharLen(clean_content(proof_result[1].content)) >= MinLength

\* C5: the references of an emitted block are the identifiers of its
\* statement content, first-seen order, followed by those of its proof that
\* the content does not reference, counted only when the proof meets the
\* minimum and is kept; no identifier twice, none empty; None exactly when
\* there is none.
C5_References ==
    [][pc = "block" =>
          LET of_content == Identifiers(content)
              of_proof == IF ProofMeetsMinimum THEN Identifiers(proof_result[1].content)
                          ELSE <<>>
              expected == FirstSeen(of_content \o of_proof)
          IN blocks'[Len(blocks')].references =
                 IF expected = <<>> THEN None ELSE Some(expected)]_vars

----------------------------------------------------------------------------
(* One parser instance, several documents.                                 *)

InitSession == Start(SessionDocs)

SpecSession == InitSession /\ [][NextSession]_vars

\* C6: while parse_text walks a document, the custom names its matcher
\* recognizes are exactly those declared in that document, whatever the
\* instance parsed before.
C6_RegistryPerDocument ==
    pc # "call" => custom_environments = Range(detect_custom_environments(text))

\* C7: any two calls of parse_text on the same text return the same blocks.
C7_Deterministic ==
    \A i, j \in 1..Len(returned) :
        returned[i].input = returned[j].input => returned[i].blocks = returned[j].blocks

----------------------------------------------------------------------------
(* Documents of well-closed statements and proofs, none inside another.    *)

StatementOpens(s) == {i \in 1..Len(s) : env_pattern(s[i], custom_environments)}

StatementCloses(s) ==
    {i \in 1..Len(s) : /\ IsMarker(s[i])
                       /\ EnvMarker[s[i]].cmd = "end"
                       /\ MatchesName(EnvMarker[s[i]].name, all_envs(custom_environments))}

ProofOpens(s) == {i \in 1..Len(s) : proof_start_pattern(s[i])}

ProofCloses(s) == {i \in 1..Len(s) : proof_end_pattern(s[i])}

Markers(s) == StatementOpens(s) \cup StatementCloses(s) \cup ProofOpens(s) \cup ProofCloses(s)

\* the marker after, and before, lexeme i; 0 when there is none
MarkerAfter(s, i) ==
    LET later == {j \in Markers(s) : j > i}
    IN IF later = {} THEN 0 ELSE CHOOSE j \in later : \A k \in later : j <= k

MarkerBefore(s, i) ==
    LET earlier == {j \in Markers(s) : j < i}
    IN IF earlier = {} THEN 0 ELSE CHOOSE j \in earlier : \A k \in earlier : k <= j

WellClosed(s) ==
    /\ \A i \in StatementOpens(s) :
          /\ MarkerAfter(s, i) \in StatementCloses(s)
          /\ Lower(EnvMarker[s[MarkerAfter(s, i)]].name) = Lower(EnvMarker[s[i]].name)
    /\ \A i \in StatementCloses(s) : MarkerBefore(s, i) \in StatementOpens(s)
    /\ \A i \in ProofOpens(s) : MarkerAfter(s, i) \in ProofCloses(s)
    /\ \A i \in ProofCloses(s) : MarkerBefore(s, i) \in ProofOpens(s)

\* normalized text of 3 characters or more
Sufficient(body) == CharLen(clean_content(body)) >= MinLength

\* the body of the statement opened at lexeme o, after its label if any
BodyOf(s, o) == Slice(s, extract_label(s, o).pos, MarkerAfter(s, o) - 1)

\* a proof with sufficient content follows the statement opened at o after
\* blanks only
ProofFollows(s, o) ==
    LET c == MarkerAfter(s, o)
        p == MarkerAfter(s, c)
    IN /\ p \in ProofOpens(s)
       /\ \A k \in (c + 1)..(p - 1) : s[k] \in Blank
       /\ Sufficient(Slice(s, p, MarkerAfter(s, p) - 1))

\* the opening marker carries a bracketed title that is not empty
Titled(tok) == EnvMarker[tok].title # None /\ EnvMarker[tok].title # Some("")

\* the statements with sufficient content
KeptStatements(s) == {o \in StatementOpens(s) : Sufficient(BodyOf(s, o))}

\* C10: for a document of well-closed statements and proofs, none inside
\* another, parse_text returns one block per statement with sufficient
\* content, in document order, of the kind of its opening marker, with a
\* proof exactly when a proof with sufficient content follows it after
\* blanks only and a title exactly when its opening marker has a title.
C10_OneBlockPerStatement ==
    pc = "done" /\ WellClosed(text) =>
        /\ Len(blocks) = Cardinality(KeptStatements(text))
        /\ \A o \in KeptStatements(text) :
              LET b == blocks[Cardinality({q \in KeptStatements(text) : q <= o})]
              IN /\ b.type = normalize_env_type(EnvMarker[text[o]].name)
                 /\ b.content_latex = clean_content(BodyOf(text, o))
                 /\ b.proof_latex # None <=> ProofFollows(text, o)
                 /\ b.title # None <=> Titled(text[o])

----------------------------------------------------------------------------
(* Termination.                                                            *)

\* statements and proofs, opened and closed in any order and number
LiveVocabulary == {"\\begin{theorem}", "\\end{theorem}", "\\begin{proof}", "\\end{proof}",
                   "abc"}

InitLive == Start(Texts(LiveVocabulary, MaxLen))

\* parse_text is straight-line code in one thread: nothing suspends it, so a
\* step that can be taken is taken.  This is WF_vars(Next) with
\* ENABLED <<Next>>_vars written out: every pc but "done" has an action
\* whose guard holds (FindStatement and Return, DiscardStatement and
\* SeekProof have complementary guards), and "done" has none.
Running == []<>(pc = "done") \/ []<><<Next>>_vars

SpecLive == InitLive /\ [][Next]_vars /\ Running

\* C8: on every document, markers missing, surplus or mismatched included,
\* parse_text reaches its return; every pass of the walker loop, of the
\* balanced scan and of the proof scan leaves its position strictly further
\* on and inside the text; a document without a recognized statement
\* opening marker returns no block.
C8_Terminates ==
    /\ <>(pc = "done")
    /\ [][pc' = "walk" /\ pc \in {"statement", "block"} => pos < pos']_vars
    /\ [][pc = "environment" /\ pc' = "environment" => current_pos < current_pos']_vars
    /\ [][pc = "proof" /\ pc' = "proof" => current_pos < current_pos']_vars
    /\ [](pos <= Len(text) /\ current_pos <= Len(text))
    /\ [](pc = "done" /\ StatementOpens(text) = {} => blocks = <<>>)

\* parse_text has returned a block for a document that starts with a
\* surplus closing marker and ends inside an unclosed proof
C8_Witness ==
    /\ pc = "done"
    /\ blocks # <<>>
    /\ text[1] \in {"\\end{theorem}", "\\end{proof}"}
    /\ proof_result # None
    /\ proof_result[1].end = Len(text)
    /\ ~proof_end_pattern(text[Len(text)])

----------------------------------------------------------------------------
(* Truncation at the end of the document.                                  *)

\* the depth over all proof names after lexeme upto, for a proof whose
\* content starts at offset start
ProofDepth(s, start, upto) ==
    1 + Cardinality({i \in (start + 1)..upto : proof_start_pattern(s[i])})
      - Cardinality({i \in (start + 1)..upto : proof_end_pattern(s[i])})

ProofClosingMarkers(s, start) ==
    {c \in (start + 1)..Len(s) : proof_end_pattern(s[c]) /\ ProofDepth(s, start, c) = 0}

\* no closing marker brings the depth of the statement in hand back to 0
Unclosed == ClosingMarkers(text, env_type_raw, content_start) = {}

\* C9: a statement scan or a proof scan whose depth never returns to 0
\* returns the text from the content start to the end of the document and
\* the document length; a statement cut this way whose content has the
\* minimum length gets no proof, is emitted with that content, and the
\* walker then stands at the end of the document and returns, so the block
\* is the last one.
C9_Truncation ==
    /\ [](pc = "statement" /\ Unclosed =>
             /\ content = Slice(text, content_start, Len(text))
             /\ content_end = Len(text))
    /\ [](/\ pc = "block"
          /\ proof_result # None
          /\ ProofClosingMarkers(text, proof_content_start) = {}
          => /\ proof_result[1].content = Slice(text, proof_content_start, Len(text))
             /\ proof_result[1].end = Len(text))
    /\ [][pc = "statement" /\ Unclosed /\ Sufficient(content) =>
             pc' = "block" /\ proof_result' = None]_vars
    /\ [][pc = "block" /\ Unclosed =>
             /\ Len(blocks') = Len(blocks) + 1
             /\ blocks'[Len(blocks')].content_latex =
                    clean_content(Slice(text, content_start, Len(text)))
             /\ blocks'[Len(blocks')].proof_latex = None
             /\ pos' = Len(text)]_vars
    /\ [][pc = "walk" /\ pos = Len(text) =>
             pc' = "done" /\ returned'[Len(returned')].blocks = blocks]_vars

\* parse_text has returned, its last block a statement cut at the end of
\* the document that came after an earlier block
C9_Witness ==
    /\ pc = "done"
    /\ Unclosed
    /\ Len(blocks) >= 2
    /\ content_end = Len(text)
    /\ blocks[Len(blocks)].content_latex = clean_content(content)

----------------------------------------------------------------------------
(* Custom statement kinds.                                                 *)

\* what a preamble may declare: nothing, one name that no heuristic maps,
\* one that maps to theorem, both, a name after a style directive, the same
\* name in two declarations, or a canonical name beside a custom one
Preambles ==
    { <<>>,
      <<"\\newtheorem{axiom}{Axiom}">>,
      <<"\\newtheorem{mythm}{Theorem}">>,
      <<"\\newtheorem{axiom}{Axiom}", "\\newtheorem{mythm}{Theorem}">>,
      <<"\\theoremstyle{plain}", " ", "\\newtheorem{axiom}{Axiom}">>,
      <<"\\newtheorem{axiom}{Axiom}", "\\newtheorem{axiom}{Axiom}">>,
      <<"\\newtheorem{lemma}{Lemma}", "\\newtheorem{mythm}{Theorem}">> }

CustomVocabulary == {"\\begin{axiom}", "\\end{axiom}", "\\begin{mythm}", "\\end{mythm}",
                     "\\begin{proof}", "abc"}

InitCustom == Start({p \o d : p \in Preambles, d \in Texts(CustomVocabulary, MaxLen - 1)})

SpecCustom == InitCustom /\ [][Next]_vars

\* the names the document declares
Declared(s) == {Strip(NewTheoremName[s[d]]) : d \in {e \in 1..Len(s) : s[e] \in DOMAIN NewTheoremName}}

\* the markers of the declared names
DeclaredMarkers(s) ==
    {i \in 1..Len(s) : IF IsMarker(s[i]) THEN EnvMarker[s[i]].name \in Declared(s) ELSE FALSE}

\* the opening markers of the declared names
DeclaredOpens(s) == {o \in DeclaredMarkers(s) : EnvMarker[s[o]].cmd = "begin"}

\* the marker of a declared name after lexeme i; 0 when there is none
DeclaredAfter(s, i) ==
    LET later == {j \in DeclaredMarkers(s) : j > i}
    IN IF later = {} THEN 0 ELSE First(later)

\* the document has no proof marker, and its markers of declared names come
\* in pairs: an opening marker, then the closing marker of the same name
DeclaredClosed(s) ==
    /\ \A i \in 1..Len(s) : ~proof_start_pattern(s[i]) /\ ~proof_end_pattern(s[i])
    /\ \A o \in DeclaredOpens(s) :
          /\ DeclaredAfter(s, o) # 0
          /\ EnvMarker[s[DeclaredAfter(s, o)]].cmd = "end"
          /\ EnvMarker[s[DeclaredAfter(s, o)]].name = EnvMarker[s[o]].name
    /\ \A c \in DeclaredMarkers(s) \ DeclaredOpens(s) :
          \E o \in DeclaredOpens(s) : DeclaredAfter(s, o) = c

\* the body of the statement opened at lexeme o, after its label if any
DeclaredBody(s, o) == Slice(s, extract_label(s, o).pos, DeclaredAfter(s, o) - 1)

\* C11: with auto-detection on, in a document whose environments of
\* declared names are closed one after the other, every such environment
\* whose content is sufficient is returned as a block, the blocks in the
\* order of the environments, each with the kind normalize_env_type gives
\* the name and with its normalized content.
C11_CustomEmitted ==
    pc = "done" /\ auto_detect_envs /\ DeclaredClosed(text) =>
        LET kept == {o \in DeclaredOpens(text) : Sufficient(DeclaredBody(text, o))}
        IN \A o \in kept :
              LET k == Cardinality({q \in kept : q <= o})
              IN /\ k <= Len(blocks)
                 /\ blocks[k].type = normalize_env_type(EnvMarker[text[o]].name)
                 /\ blocks[k].content_latex = clean_content(DeclaredBody(text, o))

\* parse_text has returned the block of a declared name that the
\* heuristics map to theorem
C11_Witness ==
    /\ pc = "done"
    /\ DeclaredClosed(text)
    /\ \E o \in DeclaredOpens(text) :
          /\ Sufficient(DeclaredBody(text, o))
          /\ EnvMarker[text[o]].name = "mythm"
          /\ blocks[1].type = "theorem"

----------------------------------------------------------------------------
(* Direct calls of normalize_env_type.                                     *)

\* the names normalize_env_type is called with: canonical names, aliases,
\* names with one or several fragments or none, in several letter cases,
\* plain and starred
NormalizeNames ==
    Range(MATH_ENVIRONMENTS) \cup DOMAIN ENVIRONMENT_VARIANTS \cup
    {"THM", "Thm", "thm*", "Lemma", "LEMMA", "lemma*", "Theorem", "Theorem*", "theorem*",
     "DEFINITION", "PROPOSICIÓN", "Corollary", "axiom", "Axiom", "axiom*", "Axiom*",
     "mythm", "mythm*", "MyThm", "teoria", "Teoria", "thdef", "ThDef", "thdef*", "defth", "DefTh",
     "deflemma", "mylem", "MyLem", "lemprop", "myprop", "myprop*", "propcor", "mycor",
     "MYCOR", "remark", "Remark", "remark*"}

\* the same name in another letter case, or with the star put on or taken off
Variants(n) ==
    {m \in NormalizeNames \ {n} :
        \/ LowerSeq(Spelling[m]) = LowerSeq(Spelling[n])
        \/ Spelling[m] = Spelling[n] \o <<"*">>
        \/ Spelling[n] = Spelling[m] \o <<"*">>}

\* parser.normalize_env_type(env_type_arg)
Normalize ==
    /\ pc = "normalize"
    /\ normalized' = Append(normalized, [env_type |-> env_type_arg,
                                         result |-> normalize_env_type(env_type_arg)])
    /\ pc' = "normalized"
    /\ UNCHANGED <<input, auto_detect_envs, text, custom_environments, pos, blocks,
                   env_type_raw, title, label, content_start, depth, current_pos,
                   content, content_end, proof_content_start, proof_result, returned,
                   custom_envs, env_type_arg>>
    /\ UNCHANGED consumed

\* the next call is made with a variant of the name
NormalizeAgain ==
    /\ pc = "normalized"
    /\ Len(normalized) < MaxCalls
    /\ \E m \in Variants(env_type_arg) : env_type_arg' = m
    /\ pc' = "normalize"
    /\ UNCHANGED <<input, auto_detect_envs, text, custom_environments, pos, blocks,
                   env_type_raw, title, label, content_start, depth, current_pos,
                   content, content_end, proof_content_start, proof_result, returned,
                   custom_envs, normalized>>
    /\ UNCHANGED consumed

NextNormalize == Normalize \/ NormalizeAgain

InitNormalize ==
    /\ input = <<>>
    /\ auto_detect_envs = TRUE
    /\ text = <<>>
    /\ custom_environments = {}
    /\ pc = "normalize"
    /\ pos = 0
    /\ blocks = <<>>
    /\ env_type_raw = "theorem"
    /\ title = None
    /\ label = None
    /\ content_start = 0
    /\ depth = 0
    /\ current_pos = 0
    /\ content = <<>>
    /\ content_end = 0
    /\ proof_content_start = 0
    /\ proof_result = None
    /\ returned = <<>>
    /\ custom_envs = <<>>
    /\ consumed = <<>>
    /\ env_type_arg \in NormalizeNames
    /\ normalized = <<>>

SpecNormalize == InitNormalize /\ [][NextNormalize]_vars

\* the characters of a name in lower case, one trailing star taken off
Stem(n) ==
    LET low == LowerSeq(Spelling[n])
    IN IF low # <<>> /\ low[Len(low)] = "*" THEN SubSeq(low, 1, Len(low) - 1) ELSE low

TheoremLike(c) == Contains(c, <<"t", "h">>) \/ Contains(c, <<"t", "e", "o">>)

DefinitionLike(c) == Contains(c, <<"d", "e", "f">>)

\* r is what the first applicable rule gives for name n
FirstRule(n, r) ==
    LET c == Stem(n)
        w == Join(c)
        alias == w \in DOMAIN ENVIRONMENT_VARIANTS
        canonical == w \in Range(MATH_ENVIRONMENTS)
        known == alias \/ canonical
        th == TheoremLike(c)
        df == DefinitionLike(c)
        lm == Contains(c, <<"l", "e", "m">>)
        pr == Contains(c, <<"p", "r", "o", "p">>)
        co == Contains(c, <<"c", "o", "r">>)
    IN /\ alias => r = ENVIRONMENT_VARIANTS[w]
       /\ ~alias /\ canonical => r = w
       /\ ~known /\ th => r = "theorem"
       /\ ~known /\ ~th /\ df => r = "definition"
       /\ ~known /\ ~th /\ ~df /\ lm => r = "lemma"
       /\ ~known /\ ~th /\ ~df /\ ~lm /\ pr => r = "proposition"
       /\ ~known /\ ~th /\ ~df /\ ~lm /\ ~pr /\ co => r = "corollary"
       /\ ~known /\ ~th /\ ~df /\ ~lm /\ ~pr /\ ~co => r = w

\* C12: every result of normalize_env_type is what the first applicable
\* rule gives (alias, canonical name, theorem-like, definition-like,
\* lemma-like, proposition-like, corollary-like fragment, else the
\* lowercased name); calls with a name, with it in another letter case and
\* with its starred form give one result; a name with a theorem-like and a
\* definition-like fragment gives theorem.
C12_Normalize ==
    /\ \A i \in 1..Len(normalized) :
          /\ FirstRule(normalized[i].env_type, normalized[i].result)
          /\ TheoremLike(Stem(normalized[i].env_type)) /\
             DefinitionLike(Stem(normalized[i].env_type)) =>
                normalized[i].result = "theorem"
    /\ \A i, j \in 1..Len(normalized) :
          Stem(normalized[i].env_type) = Stem(normalized[j].env_type) =>
              normalized[i].result = normalized[j].result

\* a name with a definition-like fragment before a theorem-like one, then
\* the same name capitalised or starred, have been normalized
C12_Witness ==
    /\ Len(normalized) >= 2
    /\ normalized[1].env_type = "defth"
    /\ normalized[2].env_type # "defth"
    /\ normalized[2].result = "theorem"

----------------------------------------------------------------------------
(* A comment line put into a document.                                     *)

CommentVocabulary == {"\\begin{theorem}", "\\end{theorem}", "\\begin{proof}",
                      "\\end{proof}", "abc", "\n", "%"}

\* short documents, and longer ones that start with a whole statement
CommentDocs ==
    Texts(CommentVocabulary, MaxLen - 1) \cup
    {<<"\\begin{theorem}", "abc", "\\end{theorem}">> \o d :
        d \in Texts(CommentVocabulary, MaxLen - 2)}

CommentLines == {<<"%", "\n">>, <<"%", " ", "abc", "\n">>}

\* the offsets where a line of the document starts
LineStarts(s) == {p \in 0..Len(s) : IF p = 0 THEN TRUE ELSE s[p] = "\n"}

\* the offset in the comment-free text of offset p of the document, p being
\* the start of a line
TextOffset(p) == Len(remove_comments(SubSeq(input, 1, p)))

\* offset q of the text lies inside no statement and no proof that the
\* walker went through
Outside(q) ==
    \A i \in 1..Len(consumed) :
        /\ ~(consumed[i].open < q /\ q < consumed[i].content_end)
        /\ ~(consumed[i].proof_open < q /\ q < consumed[i].proof_end)

\* parse_text is called with the document just parsed, a comment line put
\* in at the start of one of its lines, outside every statement and proof
ParseCommented ==
    /\ pc = "done"
    /\ Len(returned) = 1
    /\ \E p \in LineStarts(input), line \in CommentLines :
          /\ Outside(TextOffset(p))
          /\ input' = SubSeq(input, 1, p) \o line \o SubSeq(input, p + 1, Len(input))
    /\ pc' = "call"
    /\ UNCHANGED <<auto_detect_envs, text, custom_environments, pos, blocks,
                   env_type_raw, title, label, content_start, depth, current_pos,
                   content, content_end, proof_content_start, proof_result, returned,
                   custom_envs, env_type_arg, normalized, consumed>>

NextComment == Next \/ ParseCommented

InitComment == Start(CommentDocs)

SpecComment == InitComment /\ [][NextComment]_vars

\* C13: a document and the same document with a whole comment line put in
\* between two of its lines, outside the statements and proofs, give the
\* same blocks; so does a line put in between the closing marker of a
\* statement and the opening marker of its proof.
C13_CommentLine ==
    Len(returned) = 2 => returned[2].blocks = returned[1].blocks

\* both documents are parsed: the comment line stands between the closing
\* marker of a statement and the opening marker of its proof, and the block
\* has its proof
C13_Witness ==
    /\ Len(returned) = 2
    /\ Len(returned[2].blocks) = 1
    /\ returned[2].blocks[1].proof_latex = Some(<<"abc">>)
    /\ \E i \in 1..(Len(input) - 2) :
          /\ input[i] = "\\end{theorem}"
          /\ input[i + 1] = "\n"
          /\ input[i + 2] = "%"
          /\ \E j \in (i + 3)..Len(input) :
                /\ input[j] = "\\begin{proof}"
                /\ \A k \in (i + 1)..(j - 1) : input[k] # "\\begin{proof}"

----------------------------------------------------------------------------
(* Where the walker goes on after a block.                                 *)

\* the offset just past the proof that opens after offset p: past the
\* closing marker that brings the depth over all proof names to 0, or the
\* end of the text when there is none
ProofEndAfter(s, p) ==
    LET o == First({j \in (p + 1)..Len(s) : proof_start_pattern(s[j])})
        closing == ProofClosingMarkers(s, o)
    IN IF closing = {} THEN Len(s) ELSE First(closing)

\* C14 as claimed: after a block the walker goes on at the proof's end if the
\* block has a proof, and at the statement's content end if no proof was
\* found or the proof was dropped for its length.
C14_AsClaimed ==
    [][pc = "block" =>
          pos' = IF blocks'[Len(blocks')].proof_latex # None
                 THEN proof_result[1].end
                 ELSE content_end]_vars

\* C14, amended: after a block the walker goes on at the end of the proof
\* whenever a proof opening marker follows the statement after blanks only,
\* whether the proof is kept in the block or dropped for its length, and at
\* the statement's content end when no proof was found.
C14_ResumeAfterFound ==
    [][pc = "block" =>
          pos' = IF ProofAdjacent(text, content_end)
                 THEN ProofEndAfter(text, content_end)
                 ELSE content_end]_vars

\* the walker stands past a proof that was dropped for its length: the
\* block it follows has no proof
C14_Witness ==
    /\ pc = "walk"
    /\ consumed # <<>>
    /\ consumed[Len(consumed)].emitted
    /\ consumed[Len(consumed)].proof_open >= 0
    /\ pos = consumed[Len(consumed)].proof_end
    /\ pos > content_end + 1
    /\ blocks[Len(blocks)].proof_latex = None

----------------------------------------------------------------------------
(* The list of custom names detected in a document.                        *)

\* the names of the declarations of s, trimmed, in order of appearance
DeclaredNames(s) ==
    LET RECURSIVE D(_)
        D(i) == IF i > Len(s) THEN <<>>
                ELSE IF s[i] \in DOMAIN NewTheoremName
                     THEN <<Strip(NewTheoremName[s[i]])>> \o D(i + 1)
                ELSE D(i + 1)
    IN D(1)

\* C15: the list returned by detect_custom_environments holds no canonical
\* kind name and no name twice, also for a document that declares one name
\* in several declarations, and its names stand in the order of their first
\* declaration in the document.
C15_CustomNames ==
    pc # "call" =>
        /\ \A i \in 1..Len(custom_envs) : custom_envs[i] \notin Range(MATH_ENVIRONMENTS)
        /\ \A i, j \in 1..Len(custom_envs) : i # j => custom_envs[i] # custom_envs[j]
        /\ custom_envs =
              FirstSeen(SelectSeq(DeclaredNames(text),
                                  LAMBDA n : n \notin Range(MATH_ENVIRONMENTS)))

----------------------------------------------------------------------------
(* What remove_comments makes of each line.                                *)

\* statements and proofs, text, the comment character, the escape character
\* and the newline
EscapeVocabulary == {"\\begin{theorem}", "\\end{theorem}", "\\begin{proof}", "abc",
                     "%", "\\", "\n"}

InitEscape == Start(Texts(EscapeVocabulary, MaxLen))

SpecEscape == InitEscape /\ [][Next]_vars

\* text.split('\n'): the lines of s, the newlines left out
Lines(s) ==
    LET RECURSIVE L(_, _)
        L(i, line) ==
            IF i > Len(s) THEN <<line>>
            ELSE IF s[i] = "\n" THEN <<line>> \o L(i + 1, <<>>)
            ELSE L(i + 1, Append(line, s[i]))
    IN L(1, <<>>)

\* the places of line where a comment character stands at the start of the
\* line or after something other than the escape character
CommentStarts(line) ==
    {i \in 1..Len(line) :
        /\ line[i] = "%"
        /\ IF i = 1 THEN TRUE ELSE line[i - 1] # "\\"}

\* C16: remove_comments cuts each line at its first comment character that
\* starts the line or does not follow the escape character and leaves the
\* other lines as they are: the output has as many lines as the input, each
\* output line is a prefix of its input line, no output line holds an
\* unescaped comment character, and remove_comments applied again changes
\* nothing.
C16_CommentsCut ==
    pc # "call" =>
        LET before == Lines(input)
            after == Lines(text)
        IN /\ Len(after) = Len(before)
           /\ \A k \in 1..Len(before) :
                 /\ after[k] = IF CommentStarts(before[k]) = {} THEN before[k]
                               ELSE SubSeq(before[k], 1, First(CommentStarts(before[k])) - 1)
                 /\ Len(after[k]) <= Len(before[k])
                 /\ after[k] = SubSeq(before[k], 1, Len(after[k]))
                 /\ CommentStarts(after[k]) = {}
           /\ remove_comments(text) = text

\* a document of two lines: the first keeps an escaped comment character and
\* loses what follows the unescaped one after it, the second is left whole
C16_Witness ==
    /\ pc = "done"
    /\ Len(Lines(input)) = 2
    /\ \E i \in 1..(Len(input) - 3) :
          /\ input[i] = "\\"
          /\ input[i + 1] = "%"
          /\ input[i + 2] = "%"
          /\ input[i + 3] = "\n"
          /\ SubSeq(text, 1, i + 2) = SubSeq(input, 1, i + 1) \o <<"\n">>
    /\ Lines(text)[2] = Lines(input)[2]
    /\ Lines(text)[2] # <<>>

----------------------------------------------------------------------------
(* One depth for all the names of a proof.                                 *)

\* a statement, and proofs under two of their names
SynonymVocabulary == {"\\begin{theorem}", "\\end{theorem}", "\\begin{proof}",
                      "\\end{proof}", "\\begin{dem}", "\\end{dem}", "abc"}

\* a whole statement, then up to MaxLen - 1 lexemes
SynonymDocs ==
    {<<"\\begin{theorem}", "abc", "\\end{theorem}">> \o d :
        d \in Texts(SynonymVocabulary, MaxLen - 1)}

InitSynonym == Start(SynonymDocs)

SpecSynonym == InitSynonym /\ [][Next]_vars

\* the opening and closing markers of any proof name after offset cur
ProofMarkersFrom(s, cur) ==
    {i \in (cur + 1)..Len(s) : proof_start_pattern(s[i]) \/ proof_end_pattern(s[i])}

\* C17: extract_proof keeps one depth for all the names of a proof: 1 after
\* the adjacent opening marker, +1 for every later opening marker and -1 for
\* every closing marker of any proof name, the markers taken in the order of
\* the text; the proof content ends where the closing marker that brings the
\* depth to 0 starts, whatever name it has, and the returned offset is just
\* past that marker.
C17_OneDepth ==
    /\ [](pc = "proof" =>
             /\ depth = ProofDepth(text, proof_content_start, current_pos)
             /\ depth > 0)
    /\ [][pc = "proof" /\ ProofMarkersFrom(text, current_pos) # {} =>
             LET m == First(ProofMarkersFrom(text, current_pos))
                 d == IF proof_start_pattern(text[m]) THEN depth + 1 ELSE depth - 1
             IN IF d = 0
                THEN /\ pc' = "block"
                     /\ proof_result' = Some([content |-> Slice(text, proof_content_start, m - 1),
                                              end |-> m])
                ELSE pc' = "proof" /\ depth' = d /\ current_pos' = m]_vars
    /\ [](/\ pc = "block"
          /\ proof_result # None
          /\ ProofClosingMarkers(text, proof_content_start) # {}
          => LET c == First(ProofClosingMarkers(text, proof_content_start))
             IN /\ proof_result[1].content = Slice(text, proof_content_start, c - 1)
                /\ proof_result[1].end = c)

\* a proof opened under one name and closed under another, with an opening
\* marker of the second name and a closing marker of the first inside it
C17_Witness ==
    /\ pc = "block"
    /\ proof_result # None
    /\ text[proof_content_start] = "\\begin{proof}"
    /\ proof_result[1].content = <<"\\begin{dem}", "\\end{proof}">>
    /\ text[proof_result[1].end] = "\\end{dem}"

----------------------------------------------------------------------------
(* The walker never goes back.                                             *)

\* the passes of the walker loop that emitted a block, in the order made
EmittedSpans == SelectSeq(consumed, LAMBDA c : c.emitted)

\* where the text used by a pass ends: past the proof when one was found,
\* past the statement otherwise
SpanEnd(c) == IF c.proof_end >= 0 THEN c.proof_end ELSE c.content_end

\* C18: the walker position grows on every pass of the loop of parse_text,
\* whether the statement is emitted or discarded for its short content;
\* so the spans used for successive statements (content and proof) do not
\* overlap and lie in document order, the blocks are in the order of their
\* opening markers, and a statement opening marker inside the span used
\* for an earlier statement or its proof gets no pass, hence no block, of
\* its own.
C18_NeverBack ==
    /\ [][pc' = "walk" /\ pc \in {"statement", "block"} => pos < pos']_vars
    /\ [](pc # "call" =>
             /\ \A i \in 1..Len(consumed) :
                   /\ 0 <= consumed[i].open
                   /\ consumed[i].open < consumed[i].content_end
                   /\ consumed[i].content_end <= SpanEnd(consumed[i])
                   /\ SpanEnd(consumed[i]) = consumed[i].next_pos
                   /\ consumed[i].next_pos <= Len(text)
                   /\ consumed[i].proof_open >= 0 =>
                          consumed[i].content_end <= consumed[i].proof_open
             /\ \A i, j \in 1..Len(consumed) :
                   i < j => consumed[i].next_pos <= consumed[j].open
             /\ consumed # <<>> => consumed[Len(consumed)].next_pos <= pos
             /\ Len(blocks) = Len(EmittedSpans)
             /\ \A k \in 1..Len(blocks) :
                   /\ blocks[k].type =
                         normalize_env_type(EnvMarker[text[EmittedSpans[k].open + 1]].name)
                   /\ k > 1 => EmittedSpans[k - 1].open < EmittedSpans[k].open
             /\ \A o \in StatementOpens(text), i \in 1..Len(consumed) :
                   consumed[i].open < o - 1 /\ o - 1 < SpanEnd(consumed[i]) =>
                       \A j \in 1..Len(consumed) : consumed[j].open # o - 1)

\* parse_text has returned after two passes, the first over a statement
\* discarded for its short content, the second over a statement that was
\* emitted and has another opening marker inside its span: one block
C18_Witness ==
    /\ pc = "done"
    /\ Len(consumed) = 2
    /\ ~consumed[1].emitted
    /\ consumed[2].emitted
    /\ Len(blocks) = 1
    /\ \E o \in StatementOpens(text) :
          consumed[2].open < o - 1 /\ o - 1 < SpanEnd(consumed[2])

====
